---- MODULE Spec2Model ----
(***************************************************************************)
(* Model of the Google OAuth sign-in backend (src/src/server.js): the       *)
(* users table of the hosted store, the GoogleStrategy verify callback      *)
(* (Identity Upsert), passport's reaction to done(), the route handlers of  *)
(* GET /auth/google/callback, /, /dashboard, /admin and /logout with their  *)
(* gates, and the schema-provisioning scripts (create-tables.js,            *)
(* setup-supabase-tables.js and the two unnamed scripts), and the steps of   *)
(* AutomatedSetup.run (automated_setup.js).                                  *)
(*                                                                          *)
(* Every await of the verify callback is a yield point: one action per      *)
(* store call.  An action is "the store executes the call, the handler      *)
(* resumes with the result and runs to its next await (or to its end)".     *)
(***************************************************************************)
EXTENDS Integers, Sequences, FiniteSets, TLC

\* ------------------------------------------------------------------ bounds
MaxClock == 2
MaxRequests == 2
MaxRuns == 2

\* ------------------------------------------------------- bounded input sets
Sessions == {"s1", "s2"}
GoogleIds == {"g1", "g2"}
Emails == {"a@x.com", "b@x.com"}

\* SQL NULL / JS undefined for a text column, and for a timestamp column
NoText == "null"
NoTime == << >>
\* JS null / undefined for a user object
NullUser == [null |-> TRUE]

\* error codes
NoError == "none"
PGRST116 == "PGRST116"
UniqueViolation == "23505"
StoreFailure == "STORE_ERROR"
TypeError == "TypeError"

\* The profiles handed to the verify callback by passport-google-oauth20:
\* every subject id under two assertions that differ in email, name and
\* picture, and profiles whose emails / photos lists are empty or absent.
Profiles ==
  { [id |-> g, emails |-> <<e>>, emailsDefined |-> TRUE,
     displayName |-> IF e = "a@x.com" THEN "n1" ELSE "n2",
     photosDefined |-> TRUE, photos |-> <<IF e = "a@x.com" THEN "p1" ELSE "p2">>] :
       g \in GoogleIds, e \in Emails }
  \cup
  { \* no photo: photos is an empty list
    [id |-> "g1", emails |-> <<"a@x.com">>, emailsDefined |-> TRUE, displayName |-> "n1",
     photosDefined |-> TRUE, photos |-> << >>],
    \* photos is undefined
    [id |-> "g1", emails |-> <<"a@x.com">>, emailsDefined |-> TRUE, displayName |-> "n1",
     photosDefined |-> FALSE, photos |-> << >>],
    \* emails is undefined
    [id |-> "g2", emails |-> << >>, emailsDefined |-> FALSE, displayName |-> "n2",
     photosDefined |-> TRUE, photos |-> <<"p2">>],
    \* an email that differs from "a@x.com" in letter case only
    [id |-> "g2", emails |-> <<"A@x.com">>, emailsDefined |-> TRUE, displayName |-> "n2",
     photosDefined |-> TRUE, photos |-> <<"p2">>] }

VARIABLES
  users,      \* the users table of the store: a set of rows
  clock,      \* the current instant (NOW() in the store, new Date() in the process)
  requests,   \* number of callback requests started so far
  pc,         \* per session: where its callback request stands
  local,      \* per session: the verify callback's local variables
  storeLog,   \* per session: the store calls issued by its current/last upsert
  doneLog,    \* per session: the done(...) calls of its current/last upsert
  principal,  \* per session: the principal attached to the session (req.user)
  response,   \* per session: the response of its last finished callback request
  authResult, \* per session: how passport settled its last callback request
  visit,      \* the last finished request to /, /dashboard, /admin or /logout
  schema,     \* the tables, columns and indexes of the store
  runs,       \* the runs of the provisioning scripts so far, oldest first
  setup       \* the AutomatedSetup object and where its run() stands

vars == <<users, clock, requests, pc, local, storeLog, doneLog, principal, response,
          authResult, visit, schema, runs, setup>>

\* what the server's requests leave alone, and what the scripts leave alone
scriptVars == <<schema, runs, setup>>
serverVars == <<clock, requests, pc, local, storeLog, doneLog, principal, response,
                authResult, visit>>

\* --------------------------------------------------------------- the store
\* users DDL: id UUID PRIMARY KEY DEFAULT gen_random_uuid(), google_id TEXT
\* UNIQUE NOT NULL, email TEXT UNIQUE NOT NULL, name, picture, created_at
\* TIMESTAMP DEFAULT NOW(), last_login TIMESTAMP, is_active BOOLEAN DEFAULT TRUE
UserColumns == {"id", "google_id", "email", "name", "picture",
                "created_at", "last_login", "is_active"}

\* gen_random_uuid(): an id no row carries
FreshId(rows) == Cardinality(rows) + 1

\* mutant: the lookup filters on the wrong column
SelectSingleByWrongColumn(rows, googleId) ==
  LET hit == {r \in rows : r.email = googleId}
  IN  IF Cardinality(hit) = 1
        THEN [data |-> CHOOSE r \in hit : TRUE, error |-> NoError]
        ELSE [data |-> NullUser, error |-> PGRST116]

\* .from('users').select('*').eq('google_id', googleId).single()
SelectSingleByGoogleId(rows, googleId) ==
  LET hit == {r \in rows : r.google_id = googleId}
  IN  IF Cardinality(hit) = 1
        THEN [data |-> CHOOSE r \in hit : TRUE, error |-> NoError]
        ELSE [data |-> NullUser, error |-> PGRST116]

\* the row the store builds for an insert payload (column defaults applied)
NewRow(rows, payload, now) ==
  [id |-> FreshId(rows), google_id |-> payload.google_id, email |-> payload.email,
   name |-> payload.name, picture |-> payload.picture,
   created_at |-> now, last_login |-> NoTime, is_active |-> TRUE]

\* mutant: email is not declared UNIQUE
ViolatesUniqueGoogleIdOnly(rows, payload) ==
  \E r \in rows : r.google_id = payload.google_id

\* mutant: google_id is not declared UNIQUE
ViolatesUniqueEmailOnly(rows, payload) ==
  \E r \in rows : r.email = payload.email

\* the UNIQUE constraints of the users table
ViolatesUnique(rows, payload) ==
  \E r \in rows : r.google_id = payload.google_id \/ r.email = payload.email

\* mutant: a conflicting insert answers with the row already there
InsertUserIgnoreConflict(rows, payload, now) ==
  IF ViolatesUnique(rows, payload)
    THEN [rows |-> rows,
          data |-> CHOOSE r \in rows :
                     r.google_id = payload.google_id \/ r.email = payload.email,
          error |-> NoError]
    ELSE [rows |-> rows \cup {NewRow(rows, payload, now)},
          data |-> NewRow(rows, payload, now), error |-> NoError]

\* .from('users').insert([payload]).select().single()
InsertUser(rows, payload, now) ==
  IF ViolatesUnique(rows, payload)
    THEN [rows |-> rows, data |-> NullUser, error |-> UniqueViolation]
    ELSE [rows |-> rows \cup {NewRow(rows, payload, now)},
          data |-> NewRow(rows, payload, now), error |-> NoError]

\* mutant: the update has no .eq('id', ...) filter
UpdateAllUsers(rows, id, payload) ==
  { [c \in DOMAIN r |-> IF c \in DOMAIN payload THEN payload[c] ELSE r[c]] : r \in rows }

\* .from('users').update({ last_login }).eq('id', id)
UpdateUserById(rows, id, payload) ==
  { IF r.id = id
      THEN [c \in DOMAIN r |-> IF c \in DOMAIN payload THEN payload[c] ELSE r[c]]
      ELSE r : r \in rows }

\* -------------------------------------------------- the verify callback
\* mutant: the picture is left out of the insert
InsertPayloadNoPicture(googleId, email, name, picture) ==
  [google_id |-> googleId, email |-> email, name |-> name, picture |-> NoText]

\* { google_id: googleId, email, name, picture }  (server.js insert payload)
InsertPayload(googleId, email, name, picture) ==
  [google_id |-> googleId, email |-> email, name |-> name, picture |-> picture]

\* mutant: the update writes the flag along with last_login
UpdatePayloadWithFlag(now) == [last_login |-> <<now>>, isNewUser |-> FALSE]

\* { last_login: new Date().toISOString() }
UpdatePayload(now) == [last_login |-> <<now>>]

\* profile.emails[0].value and profile.photos[0]?.value throw a TypeError when
\* the emails list is absent or empty, or when the photos list is absent
ProfileThrows(profile) ==
  \/ ~profile.emailsDefined
  \/ Len(profile.emails) = 0
  \/ ~profile.photosDefined

ProfileEmail(profile) == profile.emails[1]
ProfilePicture(profile) ==
  IF Len(profile.photos) > 0 THEN profile.photos[1] ELSE NoText

\* mutant: fetchError is never thrown
LookupThrowsNever(error) == FALSE

\* if (fetchError && fetchError.code !== 'PGRST116') throw fetchError
LookupThrows(error) == error # NoError /\ error # PGRST116

\* user.isNewUser = isNewUser
WithFlag(user, isNewUser) == user @@ [isNewUser |-> isNewUser]

NoLocal == [profile |-> NullUser, user |-> NullUser, payload |-> NullUser]

\* ------------------------------------------- passport and the route handler
NoResponse == [status |-> 0, location |-> "", body |-> ""]
Redirect(to) == [status |-> 302, location |-> to, body |-> ""]

\* app.use((err, req, res, next) => res.status(500).json({error: ...}))
ErrorMiddleware == [status |-> 500, location |-> "", body |-> "Internal server error"]

\* mutant: the welcome marker is added whenever a user is attached
CallbackRouteAlwaysWelcome(user) ==
  IF user # NullUser THEN Redirect("/dashboard?welcome=true") ELSE Redirect("/dashboard")

\* (req, res) => req.user.isNewUser ? '/dashboard?welcome=true' : '/dashboard'
CallbackRoute(user) ==
  IF user.isNewUser THEN Redirect("/dashboard?welcome=true") ELSE Redirect("/dashboard")

\* mutant: the session keeps the row without the isNewUser flag
SerializeUserWithoutFlag(user) ==
  [c \in DOMAIN user \ {"isNewUser"} |-> user[c]]

\* passport.serializeUser((user, done) => done(null, user))
SerializeUser(user) == user

\* passport.deserializeUser((user, done) => done(null, user))
DeserializeUser(stored) == stored

\* mutant: the catch-all puts the error it was handed into the body
VerifiedEchoesError(old, err, user) ==
  IF err # NoError
    THEN [principal |-> old, response |-> [ErrorMiddleware EXCEPT !.body = err],
          result |-> "error"]
    ELSE IF user = NullUser
      THEN [principal |-> old, response |-> Redirect("/"), result |-> "fail"]
      ELSE [principal |-> SerializeUser(user), response |-> CallbackRoute(user),
            result |-> "success"]

\* passport.authenticate('google', { failureRedirect: '/' }) reacting to
\* done(err, user): an error goes to next(err), a missing user is a failure
\* (redirect to failureRedirect), a user is logged in and the route runs.
Verified(old, err, user) ==
  IF err # NoError
    THEN [principal |-> old, response |-> ErrorMiddleware, result |-> "error"]
    ELSE IF user = NullUser
      THEN [principal |-> old, response |-> Redirect("/"), result |-> "fail"]
      ELSE [principal |-> SerializeUser(user), response |-> CallbackRoute(user),
            result |-> "success"]

\* mutant: the principal is kept in one place for all sessions
DoneSharedPrincipal(s, err, user) ==
  LET v == Verified(principal[s], err, user)
  IN  /\ doneLog' = [doneLog EXCEPT ![s] = Append(@, [err |-> err, user |-> user])]
      /\ principal' = [t \in Sessions |-> v.principal]
      /\ response' = [response EXCEPT ![s] = v.response]
      /\ authResult' = [authResult EXCEPT ![s] = v.result]
      /\ pc' = [pc EXCEPT ![s] = "idle"]

\* mutant: the callback calls done a second time after the first
DoneTwice(s, err, user) ==
  LET v == Verified(principal[s], err, user)
  IN  /\ doneLog' = [doneLog EXCEPT ![s] =
                       Append(Append(@, [err |-> err, user |-> user]),
                              [err |-> err, user |-> user])]
      /\ principal' = [principal EXCEPT ![s] = v.principal]
      /\ response' = [response EXCEPT ![s] = v.response]
      /\ authResult' = [authResult EXCEPT ![s] = v.result]
      /\ pc' = [pc EXCEPT ![s] = "idle"]

\* done(err, user) arriving at passport for the request of session s
Done(s, err, user) ==
  LET v == Verified(principal[s], err, user)
  IN  /\ doneLog' = [doneLog EXCEPT ![s] = Append(@, [err |-> err, user |-> user])]
      /\ principal' = [principal EXCEPT ![s] = v.principal]
      /\ response' = [response EXCEPT ![s] = v.response]
      /\ authResult' = [authResult EXCEPT ![s] = v.result]
      /\ pc' = [pc EXCEPT ![s] = "idle"]

\* ------------------------------------------------------ gates and pages
\* const ADMIN_EMAIL = process.env.ADMIN_EMAIL || ...: the configured address
ADMIN_EMAIL == "a@x.com"

\* req.isAuthenticated(): a principal is attached to the session
IsAuthenticated(user) == user # NullUser

\* String.prototype.toLowerCase on the emails of the model
Lower(email) == IF email = "A@x.com" THEN "a@x.com" ELSE email

\* mutant: the admin email is compared without regard to letter case
IsAdminIgnoreCase(user) ==
  IsAuthenticated(user) /\ Lower(user.email) = Lower(ADMIN_EMAIL)

\* req.isAuthenticated() && req.user.email === ADMIN_EMAIL
IsAdmin(user) == IsAuthenticated(user) /\ user.email = ADMIN_EMAIL

\* hours of a local day, days of the admin panel's week
HoursPerDay == 24
DaysPerWeek == 7

\* new Date(now.getFullYear(), now.getMonth(), now.getDate()): local midnight
\* of the day of `now` (instants are hours counted from a local midnight)
Midnight(now) == now - (now % HoursPerDay)

\* weekAgo.setDate(weekAgo.getDate() - 7)
WeekAgo(now) == Midnight(now) - DaysPerWeek * HoursPerDay

\* .from('users').select('*').order('created_at', { ascending: false })
RECURSIVE SelectAllUsers(_)
SelectAllUsers(rows) ==
  IF rows = {} THEN << >>
  ELSE LET newest == CHOOSE r \in rows : \A q \in rows : r.created_at >= q.created_at
       IN  <<newest>> \o SelectAllUsers(rows \ {newest})

\* mutant: a user created at local midnight sharp does not count for today
StatsAfterMidnight(list, now) ==
  LET today == Midnight(now)
      weekAgo == WeekAgo(now)
      Active(u) == u.is_active
      SinceToday(u) == u.created_at > today
      SinceWeekAgo(u) == u.created_at >= weekAgo
  IN  [totalUsers |-> Len(list),
       activeUsers |-> Len(SelectSeq(list, Active)),
       newToday |-> Len(SelectSeq(list, SinceToday)),
       newThisWeek |-> Len(SelectSeq(list, SinceWeekAgo))]

\* mutant: the week is counted back from now, not from local midnight
StatsWeekFromNow(list, now) ==
  LET today == Midnight(now)
      weekAgo == now - DaysPerWeek * HoursPerDay
      Active(u) == u.is_active
      SinceToday(u) == u.created_at >= today
      SinceWeekAgo(u) == u.created_at >= weekAgo
  IN  [totalUsers |-> Len(list),
       activeUsers |-> Len(SelectSeq(list, Active)),
       newToday |-> Len(SelectSeq(list, SinceToday)),
       newThisWeek |-> Len(SelectSeq(list, SinceWeekAgo))]

\* const stats = { totalUsers, activeUsers, newToday, newThisWeek }
Stats(list, now) ==
  LET today == Midnight(now)
      weekAgo == WeekAgo(now)
      Active(u) == u.is_active
      SinceToday(u) == u.created_at >= today
      SinceWeekAgo(u) == u.created_at >= weekAgo
  IN  [totalUsers |-> Len(list),
       activeUsers |-> Len(SelectSeq(list, Active)),
       newToday |-> Len(SelectSeq(list, SinceToday)),
       newThisWeek |-> Len(SelectSeq(list, SinceWeekAgo))]

NoStats == [totalUsers |-> 0, activeUsers |-> 0, newToday |-> 0, newThisWeek |-> 0]

\* a finished page request: the session, the route, req.user as the request
\* saw it, the response, whether the guarded handler ran and whether it
\* queried the user list
PageVisit(s, route, user, status, location, body, ran, queried, stats) ==
  [session |-> s, route |-> route, user |-> user, authed |-> IsAuthenticated(user),
   email |-> IF IsAuthenticated(user) THEN user.email ELSE NoText,
   status |-> status, location |-> location, body |-> body,
   ran |-> ran, queried |-> queried, stats |-> stats]

NoVisit == PageVisit("none", "none", NullUser, 0, "", "", FALSE, FALSE, NoStats)

\* mutant: the sign-in page is sent to everybody
HomePageAlwaysSignIn(s, user) ==
  PageVisit(s, "/", user, 200, "", "sign-in page", FALSE, FALSE, NoStats)

\* app.get('/', ...): the sign-in page, or a redirect for a signed-in user
HomePage(s, user) ==
  IF IsAuthenticated(user)
    THEN PageVisit(s, "/", user, 302, "/dashboard", "", FALSE, FALSE, NoStats)
    ELSE PageVisit(s, "/", user, 200, "", "sign-in page", FALSE, FALSE, NoStats)

\* mutant: the gate lets every request through
DashboardPageUngated(s, user) ==
  PageVisit(s, "/dashboard", user, 200, "", "dashboard", TRUE, FALSE, NoStats)

\* app.get('/dashboard', isAuthenticated, ...)
DashboardPage(s, user) ==
  IF IsAuthenticated(user)
    THEN PageVisit(s, "/dashboard", user, 200, "", "dashboard", TRUE, FALSE, NoStats)
    ELSE PageVisit(s, "/dashboard", user, 302, "/", "", FALSE, FALSE, NoStats)

\* mutant: the admin gate sends a request that is not logged in to '/'
AdminPageRedirects(s, user, rows, now, fails) ==
  IF ~IsAuthenticated(user)
    THEN PageVisit(s, "/admin", user, 302, "/", "", FALSE, FALSE, NoStats)
    ELSE IF ~IsAdmin(user)
      THEN PageVisit(s, "/admin", user, 403, "", "Access denied. Admin only.",
                     FALSE, FALSE, NoStats)
      ELSE IF fails
        THEN PageVisit(s, "/admin", user, 500, "", "Error loading admin dashboard",
                       TRUE, TRUE, NoStats)
        ELSE PageVisit(s, "/admin", user, 200, "", "admin dashboard",
                       TRUE, TRUE, Stats(SelectAllUsers(rows), now))

\* mutant: a failed user-list query renders the panel over no users
AdminPageRendersOnError(s, user, rows, now, fails) ==
  IF ~IsAdmin(user)
    THEN PageVisit(s, "/admin", user, 403, "", "Access denied. Admin only.",
                   FALSE, FALSE, NoStats)
    ELSE IF fails
      THEN PageVisit(s, "/admin", user, 200, "", "admin dashboard",
                     TRUE, TRUE, Stats(<< >>, now))
      ELSE PageVisit(s, "/admin", user, 200, "", "admin dashboard",
                     TRUE, TRUE, Stats(SelectAllUsers(rows), now))

\* app.get('/admin', isAdmin, async ...): the gate, the user-list query, the
\* stats and the rendered panel, or the catch branch when the query fails
AdminPage(s, user, rows, now, fails) ==
  IF ~IsAdmin(user)
    THEN PageVisit(s, "/admin", user, 403, "", "Access denied. Admin only.",
                   FALSE, FALSE, NoStats)
    ELSE IF fails
      THEN PageVisit(s, "/admin", user, 500, "", "Error loading admin dashboard",
                     TRUE, TRUE, NoStats)
      ELSE PageVisit(s, "/admin", user, 200, "", "admin dashboard",
                     TRUE, TRUE, Stats(SelectAllUsers(rows), now))

\* app.get('/logout', ...): req.logout(cb) answers with a redirect, or with a
\* 500 when the session could not be saved or regenerated
LogoutPage(s, user, fails) ==
  IF fails
    THEN PageVisit(s, "/logout", user, 500, "", "Error logging out", TRUE, FALSE, NoStats)
    ELSE PageVisit(s, "/logout", user, 302, "/", "", TRUE, FALSE, NoStats)

\* ------------------------------------------------------------- the schema
TableNames == {"users", "sessions"}
SessionColumns == {"id", "user_id", "token", "expires_at", "created_at"}
OAuthColumns == {"access_token", "refresh_token", "token_expiry",
                 "gmail_watch_enabled", "gmail_watch_expiration", "gmail_history_id"}

\* the table each index of the scripts is created on
IndexTable == [idx_users_google_id |-> "users", idx_users_email |-> "users",
               idx_sessions_user_id |-> "sessions"]
IndexNames == DOMAIN IndexTable

ColumnsOf(table) == IF table = "users" THEN UserColumns ELSE SessionColumns

EmptySchema == [tables |-> {}, columns |-> {}, indexes |-> {}]

\* the schema the server runs against: both tables as create-tables.js makes them
ServerSchema ==
  [tables |-> TableNames,
   columns |-> {<<t, c>> : t \in TableNames, c \in UserColumns \cup SessionColumns}
                 \cap ({"users"} \X UserColumns \cup {"sessions"} \X SessionColumns),
   indexes |-> {}]

\* the schema setup-supabase-tables.js leaves: both tables and the three indexes
IndexedSchema == [ServerSchema EXCEPT !.indexes = IndexNames]

\* is every table, column and index of part in sch
Covers(sch, part) ==
  /\ part.tables \subseteq sch.tables
  /\ part.columns \subseteq sch.columns
  /\ part.indexes \subseteq sch.indexes

\* ------------------------------------------------- the provisioning scripts
\* A DDL statement.  guarded is the statement's IF NOT EXISTS / IF EXISTS.
CreateTable(t, guarded) == [op |-> "create_table", name |-> t, guarded |-> guarded]
DropTable(t, guarded) == [op |-> "drop_table", name |-> t, guarded |-> guarded]
CreateIndex(i, guarded) == [op |-> "create_index", name |-> i, guarded |-> guarded]
AddColumn(c, guarded) == [op |-> "add_column", name |-> c, guarded |-> guarded]

CreateTablesSql ==
  <<CreateTable("users", TRUE), CreateTable("sessions", TRUE)>>

\* mutant: the batch without its two DROP TABLE statements
SetupTablesSqlNoDrop ==
  <<CreateTable("users", FALSE), CreateTable("sessions", FALSE),
    CreateIndex("idx_users_google_id", FALSE),
    CreateIndex("idx_users_email", FALSE),
    CreateIndex("idx_sessions_user_id", FALSE)>>

SetupTablesSql ==
  <<DropTable("sessions", TRUE), DropTable("users", TRUE),
    CreateTable("users", FALSE), CreateTable("sessions", FALSE),
    CreateIndex("idx_users_google_id", FALSE),
    CreateIndex("idx_users_email", FALSE),
    CreateIndex("idx_sessions_user_id", FALSE)>>

OAuthColumnsSql ==
  <<AddColumn("access_token", TRUE), AddColumn("refresh_token", TRUE),
    AddColumn("token_expiry", TRUE), AddColumn("gmail_watch_enabled", TRUE),
    AddColumn("gmail_watch_expiration", TRUE), AddColumn("gmail_history_id", TRUE)>>

\* The store executing one statement on st = [schema, rows, error]: the
\* catalog holds one object per name, so creating a name that exists is an
\* error unless the statement is guarded, and then it is skipped.  sessions
\* references users(id); DROP TABLE ... CASCADE takes the table's columns,
\* indexes and rows with it.
ExecStatement(st, stmt) ==
  LET sch == st.schema
      Fail == [st EXCEPT !.error = TRUE]
  IN
  IF st.error THEN st
  ELSE IF stmt.op = "create_table" THEN
    IF stmt.name \in sch.tables THEN (IF stmt.guarded THEN st ELSE Fail)
    ELSE IF stmt.name = "sessions" /\ "users" \notin sch.tables THEN Fail
    ELSE [st EXCEPT !.schema.tables = @ \cup {stmt.name},
                    !.schema.columns = @ \cup ({stmt.name} \X ColumnsOf(stmt.name))]
  ELSE IF stmt.op = "drop_table" THEN
    IF stmt.name \notin sch.tables THEN (IF stmt.guarded THEN st ELSE Fail)
    ELSE [st EXCEPT !.schema.tables = @ \ {stmt.name},
                    !.schema.columns = {tc \in @ : tc[1] # stmt.name},
                    !.schema.indexes = {i \in @ : IndexTable[i] # stmt.name},
                    !.rows = IF stmt.name = "users" THEN {} ELSE @]
  ELSE IF stmt.op = "create_index" THEN
    IF stmt.name \in sch.indexes THEN (IF stmt.guarded THEN st ELSE Fail)
    ELSE IF IndexTable[stmt.name] \notin sch.tables THEN Fail
    ELSE [st EXCEPT !.schema.indexes = @ \cup {stmt.name}]
  ELSE \* add_column, on the users table
    IF "users" \notin sch.tables THEN Fail
    ELSE IF <<"users", stmt.name>> \in sch.columns THEN (IF stmt.guarded THEN st ELSE Fail)
    ELSE [st EXCEPT !.schema.columns = @ \cup {<<"users", stmt.name>>}]

RECURSIVE ExecStatements(_, _)
ExecStatements(st, stmts) ==
  IF stmts = << >> THEN st
  ELSE ExecStatements(ExecStatement(st, Head(stmts)), Tail(stmts))

\* exec_sql runs the batch in one transaction: a failing statement leaves
\* the store as it was
ExecSql(stmts, sch, rows) ==
  LET st == ExecStatements([schema |-> sch, rows |-> rows, error |-> FALSE], stmts)
  IN  IF st.error THEN [schema |-> sch, rows |-> rows, error |-> TRUE] ELSE st

\* The channel to exec_sql: the function runs the batch, the function does
\* not exist on the store (404), the store answers with another non-success
\* status (401, 403, 500), or the store cannot be reached.
Channels == {"ok", "missing", "refused", "down"}

Scripts == {"createTables", "setupTables", "execSqlRequest", "addOAuthTokenColumns"}

SqlOf(script) ==
  CASE script = "createTables" -> CreateTablesSql
    [] script = "setupTables" -> SetupTablesSql
    [] script = "execSqlRequest" -> SetupTablesSql
    [] script = "addOAuthTokenColumns" -> OAuthColumnsSql

\* what a script's batch creates
Provides(script) ==
  CASE script = "createTables" -> ServerSchema
    [] script = "setupTables" -> IndexedSchema
    [] script = "execSqlRequest" -> IndexedSchema
    [] script = "addOAuthTokenColumns" ->
         [tables |-> {}, columns |-> {"users"} \X OAuthColumns, indexes |-> {}]

\* how the call to exec_sql ends
StatusOf(channel, result) ==
  IF channel # "ok" THEN channel
  ELSE IF result.error THEN "sql_error" ELSE "success"

\* does the script print its SQL text on the console
PrintsSql(script, status, verifyError) ==
  CASE script = "createTables" -> status # "success"
    [] script = "setupTables" -> status # "success" /\ verifyError
    [] script = "execSqlRequest" -> status \in {"missing", "down"}
    [] script = "addOAuthTokenColumns" -> status # "success"

\* ------------------------------------------------------ AutomatedSetup
\* the steps array of run(), in its order
Steps ==
  <<"loadConfig", "validateConfig", "createProjectStructure", "generatePackageJson",
    "generateServerFile", "generateEnvFile", "setupSupabaseTables",
    "generateRailwayConfig", "generateGitignore", "installDependencies", "runTests">>

\* the steps that read a property of this.config outside a try block
ReadsConfig == {"generatePackageJson", "generateEnvFile", "setupSupabaseTables"}

\* the keys validateConfig requires and the tests runTests runs
RequiredKeys == {"google_oauth.client_id", "google_oauth.client_secret",
                 "supabase.project_url", "supabase.anon_key"}
Tests == {"testEnvVars", "testSupabaseConnection", "testServerStart"}

\* constructor: config null, errors [], before the first step, nothing printed
NoSetup == [next |-> 1, config |-> "null", attempted |-> << >>, errors |-> << >>,
            summary |-> "none"]

\* this.error(message) called once for each element of a set of findings
RECURSIVE RecordAll(_, _)
RecordAll(errors, findings) ==
  IF findings = {} THEN errors
  ELSE LET f == CHOOSE x \in findings : TRUE
       IN  RecordAll(Append(errors, f), findings \ {f})

\* The ways a step can end, given whether the configuration was loaded.
\* returned: the step returned (whatever value); thrown: it threw;
\* found: the errors it recorded itself through this.error.
StepOutcomes(step, config) ==
  LET Returned(found) == [thrown |-> FALSE, found |-> found]
      Thrown == [thrown |-> TRUE, found |-> {}]
  IN
  CASE step = "loadConfig" -> {Returned({}), Returned({"Failed to load config"})}
    [] step = "validateConfig" ->
         IF config = "null" THEN {Returned(RequiredKeys)}
         ELSE {Returned(k) : k \in SUBSET RequiredKeys} \cup {Thrown}
    [] step \in ReadsConfig ->
         IF config = "null" THEN {Thrown} ELSE {Returned({}), Thrown}
    [] step = "installDependencies" ->
         {Returned({}), Returned({"Failed to install dependencies"})}
    [] step = "runTests" ->
         IF config = "null"
           THEN {Returned(t) : t \in {u \in SUBSET Tests : "testSupabaseConnection" \in u}}
           ELSE {Returned(t) : t \in SUBSET Tests}
    [] OTHER -> {Returned({}), Thrown}

\* mutant: a step that throws ends the loop
AfterStepStopsOnThrow(st, step, outcome) ==
  [st EXCEPT
     !.next = IF outcome.thrown THEN Len(Steps) + 1 ELSE @ + 1,
     !.attempted = Append(@, step),
     !.config = IF step = "loadConfig" /\ outcome.found = {} THEN "loaded" ELSE @,
     !.errors = IF outcome.thrown THEN Append(@, "Step failed") ELSE RecordAll(@, outcome.found)]

\* one turn of the loop of run(): try { await step.fn() } catch { this.error }
AfterStep(st, step, outcome) ==
  [st EXCEPT
     !.next = @ + 1,
     !.attempted = Append(@, step),
     !.config = IF step = "loadConfig" /\ outcome.found = {} THEN "loaded" ELSE @,
     !.errors = IF outcome.thrown THEN Append(@, "Step failed") ELSE RecordAll(@, outcome.found)]

\* the summary of run()
Summary(errors) == IF Len(errors) = 0 THEN "success" ELSE "errors"

\* ------------------------------------------------------------------ actions
\* The users table as the process finds it at start: empty, or holding rows
\* that first logins of an earlier run of the server inserted.
StoredUser(n, googleId, email, name, picture) ==
  [id |-> n, google_id |-> googleId, email |-> email, name |-> name,
   picture |-> picture, created_at |-> 0, last_login |-> NoTime, is_active |-> TRUE]

InitialTables ==
  { {},
    {StoredUser(1, "g1", "a@x.com", "n1", "p1")},
    {StoredUser(1, "g1", "a@x.com", "n1", "p1"),
     StoredUser(2, "g2", "b@x.com", "n2", "p2")} }

Init ==
  /\ users \in InitialTables
  /\ clock = 1
  /\ requests = 0
  /\ pc = [s \in Sessions |-> "idle"]
  /\ local = [s \in Sessions |-> NoLocal]
  /\ storeLog = [s \in Sessions |-> << >>]
  /\ doneLog = [s \in Sessions |-> << >>]
  /\ principal = [s \in Sessions |-> NullUser]
  /\ response = [s \in Sessions |-> NoResponse]
  /\ authResult = [s \in Sessions |-> "none"]
  /\ visit = NoVisit
  /\ schema = ServerSchema
  /\ runs = << >>
  /\ setup = NoSetup

\* time passes
Tick ==
  /\ clock < MaxClock
  /\ clock' = clock + 1
  /\ UNCHANGED <<users, requests, pc, local, storeLog, doneLog, principal, response,
                 authResult, visit, scriptVars>>

\* GET /auth/google/callback where the provider did not authenticate the
\* user (consent denied): the strategy fails without calling verify.
CallbackDenied(s) ==
  /\ pc[s] = "idle"
  /\ requests < MaxRequests
  /\ requests' = requests + 1
  /\ local' = [local EXCEPT ![s] = NoLocal]
  /\ storeLog' = [storeLog EXCEPT ![s] = << >>]
  /\ doneLog' = [doneLog EXCEPT ![s] = << >>]
  /\ response' = [response EXCEPT ![s] = Redirect("/")]
  /\ authResult' = [authResult EXCEPT ![s] = "fail"]
  /\ UNCHANGED <<users, clock, pc, principal, visit, scriptVars>>

\* GET /auth/google/callback with a verified profile: the verify callback
\* starts, reads the profile and issues the lookup (first await).
CallbackBegin(s, profile) ==
  /\ pc[s] = "idle"
  /\ requests < MaxRequests
  /\ requests' = requests + 1
  /\ local' = [local EXCEPT ![s] = [NoLocal EXCEPT !.profile = profile]]
  /\ IF ProfileThrows(profile)
       THEN /\ storeLog' = [storeLog EXCEPT ![s] = << >>]
            /\ LET v == Verified(principal[s], TypeError, NullUser)
               IN  /\ doneLog' = [doneLog EXCEPT ![s] = <<[err |-> TypeError, user |-> NullUser]>>]
                   /\ principal' = [principal EXCEPT ![s] = v.principal]
                   /\ response' = [response EXCEPT ![s] = v.response]
                   /\ authResult' = [authResult EXCEPT ![s] = v.result]
            /\ pc' = pc
       ELSE /\ storeLog' = [storeLog EXCEPT ![s] =
                 <<[op |-> "select", cols |-> {}, error |-> "pending"]>>]
            /\ doneLog' = [doneLog EXCEPT ![s] = << >>]
            /\ pc' = [pc EXCEPT ![s] = "lookup"]
            /\ UNCHANGED <<principal, response, authResult>>
  /\ UNCHANGED <<users, clock, visit, scriptVars>>

\* mark the outcome of the store call in flight
Settle(log, error) == [log EXCEPT ![Len(log)].error = error]

\* The store answers the lookup; the handler checks fetchError and either
\* throws, or issues the insert, or issues the update.
Lookup(s, fails) ==
  /\ pc[s] = "lookup"
  /\ LET profile == local[s].profile
         res == IF fails THEN [data |-> NullUser, error |-> StoreFailure]
                         ELSE SelectSingleByGoogleId(users, profile.id)
         log == Settle(storeLog[s], res.error)
     IN  IF LookupThrows(res.error)
           THEN /\ storeLog' = [storeLog EXCEPT ![s] = log]
                /\ local' = local
                /\ Done(s, res.error, NullUser)
           ELSE IF res.data = NullUser
             THEN LET payload == InsertPayload(profile.id, ProfileEmail(profile),
                                     profile.displayName, ProfilePicture(profile))
                  IN  /\ local' = [local EXCEPT ![s].payload = payload]
                      /\ storeLog' = [storeLog EXCEPT ![s] = Append(log,
                           [op |-> "insert", cols |-> DOMAIN payload, error |-> "pending"])]
                      /\ pc' = [pc EXCEPT ![s] = "insert"]
                      /\ UNCHANGED <<doneLog, principal, response, authResult>>
             ELSE LET payload == UpdatePayload(clock)
                  IN  /\ local' = [local EXCEPT ![s].user = res.data, ![s].payload = payload]
                      /\ storeLog' = [storeLog EXCEPT ![s] = Append(log,
                           [op |-> "update", cols |-> DOMAIN payload, error |-> "pending"])]
                      /\ pc' = [pc EXCEPT ![s] = "update"]
                      /\ UNCHANGED <<doneLog, principal, response, authResult>>
  /\ UNCHANGED <<users, clock, requests, visit, scriptVars>>

\* mutant: an insert the store rejects is issued once more
InsertRetried(s, fails) ==
  /\ pc[s] = "insert"
  /\ LET res == IF fails THEN [rows |-> users, data |-> NullUser, error |-> StoreFailure]
                         ELSE InsertUser(users, local[s].payload, clock)
     IN  /\ users' = res.rows
         /\ IF res.error # NoError /\ Len(storeLog[s]) < 3
              THEN /\ storeLog' = [storeLog EXCEPT ![s] = Append(Settle(@, res.error),
                        [op |-> "insert", cols |-> DOMAIN local[s].payload,
                         error |-> "pending"])]
                   /\ UNCHANGED <<local, pc, doneLog, principal, response, authResult>>
              ELSE /\ storeLog' = [storeLog EXCEPT ![s] = Settle(@, res.error)]
                   /\ IF res.error # NoError
                        THEN /\ local' = local
                             /\ Done(s, res.error, NullUser)
                        ELSE /\ local' = [local EXCEPT ![s].user = res.data]
                             /\ Done(s, NoError, WithFlag(res.data, TRUE))
  /\ UNCHANGED <<clock, requests, visit, scriptVars>>

\* The store answers the insert; the handler throws insertError or returns
\* the new row with isNewUser = true.
Insert(s, fails) ==
  /\ pc[s] = "insert"
  /\ LET res == IF fails THEN [rows |-> users, data |-> NullUser, error |-> StoreFailure]
                         ELSE InsertUser(users, local[s].payload, clock)
     IN  /\ users' = res.rows
         /\ storeLog' = [storeLog EXCEPT ![s] = Settle(@, res.error)]
         /\ IF res.error # NoError
              THEN /\ local' = local
                   /\ Done(s, res.error, NullUser)
              ELSE /\ local' = [local EXCEPT ![s].user = res.data]
                   /\ Done(s, NoError, WithFlag(res.data, TRUE))
  /\ UNCHANGED <<clock, requests, visit, scriptVars>>

\* The store answers the update; its result is not looked at, and the
\* handler returns the row it fetched with isNewUser = false.
Update(s, fails) ==
  /\ pc[s] = "update"
  /\ users' = IF fails THEN users
                       ELSE UpdateUserById(users, local[s].user.id, local[s].payload)
  /\ storeLog' = [storeLog EXCEPT ![s] =
                    Settle(@, IF fails THEN StoreFailure ELSE NoError)]
  /\ local' = local
  /\ Done(s, NoError, WithFlag(local[s].user, FALSE))
  /\ UNCHANGED <<clock, requests, visit, scriptVars>>

\* GET /
Home(s) ==
  /\ visit' = HomePage(s, DeserializeUser(principal[s]))
  /\ UNCHANGED <<users, clock, requests, pc, local, storeLog, doneLog, principal,
                 response, authResult, scriptVars>>

\* GET /dashboard
Dashboard(s) ==
  /\ visit' = DashboardPage(s, DeserializeUser(principal[s]))
  /\ UNCHANGED <<users, clock, requests, pc, local, storeLog, doneLog, principal,
                 response, authResult, scriptVars>>

\* GET /admin; the store answers the user-list query or fails
Admin(s, fails) ==
  /\ visit' = AdminPage(s, DeserializeUser(principal[s]), users, clock, fails)
  /\ UNCHANGED <<users, clock, requests, pc, local, storeLog, doneLog, principal,
                 response, authResult, scriptVars>>

\* mutant: logging out leaves the principal on the session
LogoutKeepsPrincipal(s, fails, kept) ==
  /\ fails \/ ~kept
  /\ visit' = LogoutPage(s, DeserializeUser(principal[s]), fails)
  /\ UNCHANGED <<users, clock, requests, pc, local, storeLog, doneLog, principal,
                 response, authResult, scriptVars>>

\* GET /logout; when req.logout reports an error the principal may or may
\* not have been removed from the stored session already
Logout(s, fails, kept) ==
  /\ fails \/ ~kept
  /\ visit' = LogoutPage(s, DeserializeUser(principal[s]), fails)
  /\ principal' = [principal EXCEPT ![s] = IF kept THEN @ ELSE NullUser]
  /\ UNCHANGED <<users, clock, requests, pc, local, storeLog, doneLog,
                 response, authResult, scriptVars>>

Next ==
  \/ Tick
  \/ \E s \in Sessions : CallbackDenied(s)
  \/ \E s \in Sessions, profile \in Profiles : CallbackBegin(s, profile)
  \/ \E s \in Sessions, fails \in BOOLEAN : Lookup(s, fails)
  \/ \E s \in Sessions, fails \in BOOLEAN : Insert(s, fails)
  \/ \E s \in Sessions, fails \in BOOLEAN : Update(s, fails)

Spec == Init /\ [][Next]_vars

\* The callback requests alone, at one instant, where every store call that
\* was issued is answered.
NextAnswered ==
  \/ \E s \in Sessions : CallbackDenied(s)
  \/ \E s \in Sessions, profile \in Profiles : CallbackBegin(s, profile)
  \/ \E s \in Sessions, fails \in BOOLEAN : Lookup(s, fails)
  \/ \E s \in Sessions, fails \in BOOLEAN : Insert(s, fails)
  \/ \E s \in Sessions, fails \in BOOLEAN : Update(s, fails)

StoreAnswers ==
  \A s \in Sessions :
    /\ WF_vars(\E fails \in BOOLEAN : Lookup(s, fails))
    /\ WF_vars(\E fails \in BOOLEAN : Insert(s, fails))
    /\ WF_vars(\E fails \in BOOLEAN : Update(s, fails))

SpecAnswered == Init /\ [][NextAnswered]_vars /\ StoreAnswers

\* The pages and their gates, with the logins that attach the principals:
\* sign-ins of the admin and of a user whose email differs from the admin's
\* in letter case only.  A login fails by the provider's refusal or at its
\* lookup; the instant does not advance.
RouteProfiles ==
  { p \in Profiles :
      /\ ~ProfileThrows(p)
      /\ Len(p.photos) = 1
      /\ <<p.id, ProfileEmail(p)>> \in
            {<<"g1", "a@x.com">>, <<"g2", "A@x.com">>} }

NextRoutes ==
  \/ \E s \in Sessions : CallbackDenied(s)
  \/ \E s \in Sessions, profile \in RouteProfiles : CallbackBegin(s, profile)
  \/ \E s \in Sessions, fails \in BOOLEAN : Lookup(s, fails)
  \/ \E s \in Sessions : Insert(s, FALSE)
  \/ \E s \in Sessions : Update(s, FALSE)
  \/ \E s \in Sessions : Home(s)
  \/ \E s \in Sessions : Dashboard(s)
  \/ \E s \in Sessions, fails \in BOOLEAN : Admin(s, fails)
  \/ \E s \in Sessions, fails, kept \in BOOLEAN : Logout(s, fails, kept)

SpecRoutes == Init /\ [][NextRoutes]_vars

\* ---------------------------------------------------- the admin statistics
\* The admin signs in and opens /admin at an instant T, over a users table
\* whose rows were created at instants around the two boundaries of the
\* statistics.  Instants are hours; T is ten days and 0, 1, 13 or 23 hours
\* after a local midnight.
StatTimes == {10 * HoursPerDay + h : h \in {0, 1, 13, 23}}

\* creation instants on both sides of local midnight and of the week boundary
BoundaryTimes(T) ==
  {T - 10 * HoursPerDay, WeekAgo(T) - 1, WeekAgo(T), T - 2 * HoursPerDay,
   Midnight(T) - 1, Midnight(T), T - 1, T}

StatUser(n, googleId, email, created, active) ==
  [id |-> n, google_id |-> googleId, email |-> email, name |-> "n1",
   picture |-> NoText, created_at |-> created, last_login |-> NoTime,
   is_active |-> active]

\* the admin's row (or none: the admin signs in for the first time), an
\* inactive user's row or none, a third user's row or none
StatTables(T) ==
  { admin \cup second \cup third :
      admin \in {{}} \cup {{StatUser(1, "g1", "a@x.com", c, TRUE)} : c \in BoundaryTimes(T)},
      second \in {{}} \cup {{StatUser(2, "g2", "b@x.com", c, FALSE)} : c \in BoundaryTimes(T)},
      third \in {{}} \cup {{StatUser(3, "g3", "c@x.com", c, TRUE)} :
                            c \in {T - 10 * HoursPerDay, T - 2 * HoursPerDay, T - 1}} }

AdminProfile ==
  CHOOSE p \in RouteProfiles : p.id = "g1" /\ ProfileEmail(p) = ADMIN_EMAIL

AdminSession == "s1"

InitStats ==
  /\ clock \in StatTimes
  /\ users \in StatTables(clock)
  /\ requests = 0
  /\ pc = [s \in Sessions |-> "idle"]
  /\ local = [s \in Sessions |-> NoLocal]
  /\ storeLog = [s \in Sessions |-> << >>]
  /\ doneLog = [s \in Sessions |-> << >>]
  /\ principal = [s \in Sessions |-> NullUser]
  /\ response = [s \in Sessions |-> NoResponse]
  /\ authResult = [s \in Sessions |-> "none"]
  /\ visit = NoVisit
  /\ schema = ServerSchema
  /\ runs = << >>
  /\ setup = NoSetup

NextStats ==
  \/ CallbackBegin(AdminSession, AdminProfile)
  \/ \E fails \in BOOLEAN : Lookup(AdminSession, fails)
  \/ \E fails \in BOOLEAN : Insert(AdminSession, fails)
  \/ \E fails \in BOOLEAN : Update(AdminSession, fails)
  \/ \E fails \in BOOLEAN : Admin(AdminSession, fails)

SpecStats == InitStats /\ [][NextStats]_vars

\* ------------------------------------------------- provisioning, actions
\* One run of a script: the batch is posted to exec_sql, the store executes
\* it when the channel is there, the script reads the answer and writes to
\* the console.  verifyDown: the store cannot be reached by setupTables'
\* verification query.
RunScript(script, channel, verifyDown) ==
  LET result == IF channel = "ok" THEN ExecSql(SqlOf(script), schema, users)
                ELSE [schema |-> schema, rows |-> users, error |-> FALSE]
      status == StatusOf(channel, result)
      verifyError == verifyDown \/ "users" \notin result.schema.tables
  IN
  /\ Len(runs) < MaxRuns
  /\ schema' = result.schema
  /\ users' = result.rows
  /\ runs' = Append(runs, [script |-> script, channel |-> channel, status |-> status,
                           printed |-> PrintsSql(script, status, verifyError)])
  /\ UNCHANGED <<serverVars, setup>>

createTables(channel) == RunScript("createTables", channel, FALSE)

setupTables(channel, verifyDown) ==
  /\ verifyDown => channel # "ok"
  /\ RunScript("setupTables", channel, verifyDown)

execSqlRequest(channel) == RunScript("execSqlRequest", channel, FALSE)

addOAuthTokenColumns(channel) == RunScript("addOAuthTokenColumns", channel, FALSE)

\* The store the scripts are run against: new, or provisioned before, with
\* the rows the server has inserted since.
InitProvision ==
  /\ schema \in {EmptySchema, ServerSchema, IndexedSchema}
  /\ users \in IF "users" \in schema.tables THEN InitialTables ELSE {{}}
  /\ clock = 0
  /\ requests = 0
  /\ pc = [s \in Sessions |-> "idle"]
  /\ local = [s \in Sessions |-> NoLocal]
  /\ storeLog = [s \in Sessions |-> << >>]
  /\ doneLog = [s \in Sessions |-> << >>]
  /\ principal = [s \in Sessions |-> NullUser]
  /\ response = [s \in Sessions |-> NoResponse]
  /\ authResult = [s \in Sessions |-> "none"]
  /\ visit = NoVisit
  /\ runs = << >>
  /\ setup = NoSetup

NextProvision ==
  \/ \E channel \in Channels : createTables(channel)
  \/ \E channel \in Channels, verifyDown \in BOOLEAN : setupTables(channel, verifyDown)
  \/ \E channel \in Channels : execSqlRequest(channel)
  \/ \E channel \in Channels : addOAuthTokenColumns(channel)

SpecProvision == InitProvision /\ [][NextProvision]_vars

\* ------------------------------------------------ AutomatedSetup, actions
\* The loop of run() executes the step that is next and catches what it
\* throws.
SetupStep(outcome) ==
  /\ setup.next <= Len(Steps)
  /\ setup.summary = "none"
  /\ outcome \in StepOutcomes(Steps[setup.next], setup.config)
  /\ setup' = AfterStep(setup, Steps[setup.next], outcome)
  /\ UNCHANGED <<users, serverVars, schema, runs>>

\* After the loop run() prints the summary.
SetupSummary ==
  /\ setup.next = Len(Steps) + 1
  /\ setup.summary = "none"
  /\ setup' = [setup EXCEPT !.summary = Summary(setup.errors)]
  /\ UNCHANGED <<users, serverVars, schema, runs>>

AllOutcomes ==
  UNION {StepOutcomes(Steps[i], c) : i \in 1..Len(Steps), c \in {"null", "loaded"}}

NextSetup ==
  \/ \E outcome \in AllOutcomes : SetupStep(outcome)
  \/ SetupSummary

SpecSetup == Init /\ [][NextSetup]_vars

\* ------------------------------------------------------------------- types
TypeOK ==
  /\ clock \in 1..MaxClock
  /\ requests \in 0..MaxRequests
  /\ \A s \in Sessions : pc[s] \in {"idle", "lookup", "insert", "update"}
  /\ \A r \in users : DOMAIN r = UserColumns

\* ----------------------------------------------------- reading the history
HasRow(rows, googleId) == \E r \in rows : r.google_id = googleId
RowsOf(rows, googleId) == {r \in rows : r.google_id = googleId}

\* the steps of session s's upsert
LookupStep(s) == pc[s] = "lookup" /\ pc'[s] # "lookup"
InsertStep(s) == pc[s] = "insert" /\ pc'[s] = "idle"
UpdateStep(s) == pc[s] = "update" /\ pc'[s] = "idle"

\* the last upsert of s is over, found no row and its insert succeeded
FirstLoginDone(s) ==
  /\ pc[s] = "idle"
  /\ Len(storeLog[s]) = 2
  /\ storeLog[s][1].error = PGRST116
  /\ storeLog[s][2].op = "insert"
  /\ storeLog[s][2].error = NoError

\* the last upsert of s is over and its lookup returned a row
RepeatLoginDone(s) ==
  /\ pc[s] = "idle"
  /\ Len(storeLog[s]) >= 1
  /\ storeLog[s][1].error = NoError

\* C1: an upsert for a subject id without a row, none of whose store calls
\* fails, goes on to the insert, adds exactly one row, that row carries the
\* profile's subject id, email, name and picture, and done receives that row
\* with isNewUser = TRUE.
C1_FirstLoginCreatesUser ==
  /\ [][\A s \in Sessions :
          /\ (LookupStep(s) /\ ~HasRow(users, local[s].profile.id)
                /\ storeLog'[s][1].error # StoreFailure)
               => pc'[s] = "insert"
          /\ (InsertStep(s) /\ storeLog'[s][2].error = NoError)
               => /\ users \subseteq users'
                  /\ Cardinality(users') = Cardinality(users) + 1
                  /\ ~HasRow(users, local[s].profile.id)]_vars
  /\ [](\A s \in Sessions : FirstLoginDone(s) =>
          LET p == local[s].profile
          IN  /\ Cardinality(RowsOf(users, p.id)) = 1
              /\ \A r \in RowsOf(users, p.id) :
                   /\ r.email = ProfileEmail(p)
                   /\ r.name = p.displayName
                   /\ r.picture = ProfilePicture(p)
                   /\ doneLog[s] = <<[err |-> NoError,
                        user |-> WithFlag([r EXCEPT !.last_login = NoTime], TRUE)]>>)

C1_Witness ==
  \E s \in Sessions :
    /\ FirstLoginDone(s)
    /\ Len(local[s].profile.photos) = 1
    /\ Len(doneLog[s]) = 1
    /\ doneLog[s][1].user # NullUser
    /\ Cardinality(users) = 2

\* C2: an upsert for a subject id that has a row never adds a row, and when
\* its lookup returns that row it goes on to the update and done receives the
\* row it fetched with isNewUser = FALSE.
C2_RepeatLoginKeepsRows ==
  /\ [][\A s \in Sessions :
          /\ ((LookupStep(s) \/ InsertStep(s) \/ UpdateStep(s))
                /\ HasRow(users, local[s].profile.id))
               => Cardinality(users') = Cardinality(users)
          /\ (LookupStep(s) /\ HasRow(users, local[s].profile.id)
                /\ storeLog'[s][1].error # StoreFailure)
               => /\ pc'[s] = "update"
                  /\ local'[s].user \in RowsOf(users, local[s].profile.id)]_vars
  /\ [](\A s \in Sessions : RepeatLoginDone(s) =>
          /\ Len(storeLog[s]) = 2
          /\ storeLog[s][2].op = "update"
          /\ doneLog[s] = <<[err |-> NoError, user |-> WithFlag(local[s].user, FALSE)]>>
          /\ local[s].user.google_id = local[s].profile.id
          /\ \E r \in users : r.id = local[s].user.id /\ r.google_id = local[s].profile.id)

C2_Witness ==
  \E s \in Sessions :
    /\ RepeatLoginDone(s)
    /\ Len(doneLog[s]) = 1
    /\ doneLog[s][1].user # NullUser
    /\ ~doneLog[s][1].user.isNewUser
    /\ Cardinality(users) = 2

\* C3: the steps of a repeat login change nothing in the users table but the
\* last_login column of the row matching the subject id, whatever email,
\* name or picture the profile carries.
C3_RepeatLoginFrame ==
  [][\A s \in Sessions :
       ((LookupStep(s) \/ UpdateStep(s)) /\ HasRow(users, local[s].profile.id))
         => /\ Cardinality(users') = Cardinality(users)
            /\ \A r \in users :
                 IF r.google_id = local[s].profile.id
                   THEN \E r2 \in users' : r2 = [r EXCEPT !.last_login = r2.last_login]
                   ELSE r \in users']_vars

\* a repeat login with a drifted profile has stamped last_login, next to
\* another user's row
C3_Witness ==
  \E s \in Sessions :
    /\ RepeatLoginDone(s)
    /\ storeLog[s][2].error = NoError
    /\ Cardinality(users) = 2
    /\ \E r \in RowsOf(users, local[s].profile.id) :
         /\ r.last_login # NoTime
         /\ r.email # ProfileEmail(local[s].profile)
         /\ r.name # local[s].profile.displayName
         /\ r.picture # ProfilePicture(local[s].profile)

\* C4: the users table never holds two rows with the same subject id, and it
\* holds exactly one row for the subject id of every login that succeeded.
C4_OneRowPerSubject ==
  /\ \A g \in GoogleIds : Cardinality(RowsOf(users, g)) <= 1
  /\ \A s \in Sessions :
       (pc[s] = "idle" /\ authResult[s] = "success")
         => Cardinality(RowsOf(users, local[s].profile.id)) = 1

\* two first logins for one subject id raced and both are over
RaceOver(s, t) ==
  /\ s # t
  /\ pc[s] = "idle" /\ pc[t] = "idle"
  /\ local[s].profile # NullUser /\ local[t].profile # NullUser
  /\ local[s].profile.id = local[t].profile.id
  /\ Len(storeLog[s]) = 2 /\ Len(storeLog[t]) = 2
  /\ storeLog[s][2].op = "insert" /\ storeLog[t][2].op = "insert"

C4_Witness ==
  \E s, t \in Sessions :
    /\ RaceOver(s, t)
    /\ authResult[s] = "success"
    /\ local[s].profile.emails # local[t].profile.emails
    /\ storeLog[t][2].error = UniqueViolation

\* C5: when a first login's insert lands after a row for its subject id has
\* appeared (it lost the race), the insert is rejected and changes nothing,
\* done receives the error and no user, no principal is attached, and the
\* handler is over with the session free for further requests; the first of
\* two racing inserts to land succeeds unless the store fails or another
\* row holds its email.
C5_RaceLoserFailsCleanly ==
  [][\A s \in Sessions : InsertStep(s) =>
       LET mine == local[s].payload
       IN  /\ HasRow(users, mine.google_id)
                => /\ users' = users
                   /\ storeLog'[s][2].error \in {UniqueViolation, StoreFailure}
                   /\ doneLog'[s] = <<[err |-> storeLog'[s][2].error, user |-> NullUser]>>
                   /\ principal' = principal
                   /\ authResult'[s] = "error"
           /\ ((\E t \in Sessions \ {s} :
                   pc[t] = "insert" /\ local[t].payload.google_id = mine.google_id)
                /\ ~HasRow(users, mine.google_id)
                /\ ~(\E r \in users : r.email = mine.email)
                /\ storeLog'[s][2].error # StoreFailure)
                => /\ storeLog'[s][2].error = NoError
                   /\ Cardinality(RowsOf(users', mine.google_id)) = 1
                   /\ authResult'[s] = "success"]_vars

C5_Witness ==
  \E s, t \in Sessions :
    /\ RaceOver(s, t)
    /\ storeLog[s][1].error = PGRST116 /\ storeLog[t][1].error = PGRST116
    /\ storeLog[s][2].error = NoError /\ authResult[s] = "success"
    /\ storeLog[t][2].error = UniqueViolation /\ authResult[t] = "error"
    /\ principal[t] = NullUser

\* a store call of the last upsert of s reported an error
SomeStoreError(s) ==
  \E i \in 1..Len(storeLog[s]) : storeLog[s][i].error \in {StoreFailure, UniqueViolation}

\* C6: whenever the lookup, the insert or the last-login update of an upsert
\* reports a store error, done is called with an error and no user, and no
\* principal is attached.
C6_AnyStoreErrorFailsLogin ==
  \A s \in Sessions :
    (pc[s] = "idle" /\ SomeStoreError(s))
      => /\ Len(doneLog[s]) = 1
         /\ doneLog[s][1].err # NoError
         /\ doneLog[s][1].user = NullUser
         /\ authResult[s] = "error"

\* C7: a lookup that fails with a code other than PGRST116 ends the upsert on
\* the spot: the error goes to done, the users table is unchanged, and the
\* lookup stays the only store call the upsert issued.
C7_LookupErrorPropagates ==
  /\ [][\A s \in Sessions :
          (LookupStep(s) /\ storeLog'[s][1].error \notin {NoError, PGRST116})
            => /\ users' = users
               /\ pc'[s] = "idle"
               /\ doneLog'[s] = <<[err |-> storeLog'[s][1].error, user |-> NullUser]>>]_vars
  /\ [](\A s \in Sessions :
          (Len(storeLog[s]) >= 1 /\ storeLog[s][1].error \notin {NoError, PGRST116, "pending"})
            => /\ Len(storeLog[s]) = 1
               /\ storeLog[s][1].op = "select"
               /\ pc[s] = "idle")

C7_Witness ==
  \E s \in Sessions :
    /\ pc[s] = "idle"
    /\ Len(storeLog[s]) = 1
    /\ storeLog[s][1].error = StoreFailure
    /\ HasRow(users, local[s].profile.id)
    /\ Len(doneLog[s]) = 1

\* C8: every callback request whose authentication failed, be it by the
\* provider's refusal or by a store error of the upsert, is answered with a
\* redirect to '/'.
C8_AuthFailureRedirectsHome ==
  \A s \in Sessions :
    (pc[s] = "idle" /\ (authResult[s] = "fail" \/ SomeStoreError(s)))
      => /\ authResult[s] # "success"
         /\ response[s] = Redirect("/")

\* the last upsert of s inserted the user row
CreatedRow(s) ==
  \E i \in 1..Len(storeLog[s]) :
    storeLog[s][i].op = "insert" /\ storeLog[s][i].error = NoError

\* C9: a successful login is answered with a redirect to
\* '/dashboard?welcome=true' exactly when its own upsert inserted the user
\* row, and with a redirect to '/dashboard' otherwise.
C9_WelcomeIffCreated ==
  \A s \in Sessions :
    (pc[s] = "idle" /\ authResult[s] = "success")
      => /\ CreatedRow(s) => response[s] = Redirect("/dashboard?welcome=true")
         /\ ~CreatedRow(s) => response[s] = Redirect("/dashboard")

C9_Witness ==
  \E s, t \in Sessions :
    /\ pc[s] = "idle" /\ authResult[s] = "success" /\ CreatedRow(s)
    /\ pc[t] = "idle" /\ authResult[t] = "success" /\ ~CreatedRow(t)
    /\ response[s].location = "/dashboard?welcome=true"
    /\ response[t].location = "/dashboard"

FlagNames == {"isNewUser", "is_new"}

\* C10: no insert or update sent to the store carries the isNewUser flag and
\* no row of the users table has such a column; the flag is on the user value
\* handed to done.
C10_FlagNeverWritten ==
  /\ \A s \in Sessions : \A i \in 1..Len(storeLog[s]) :
       storeLog[s][i].cols \cap FlagNames = {}
  /\ \A r \in users : DOMAIN r \cap FlagNames = {}
  /\ \A s \in Sessions : \A i \in 1..Len(doneLog[s]) :
       doneLog[s][i].user # NullUser => "isNewUser" \in DOMAIN doneLog[s][i].user

C10_Witness ==
  \E s, t \in Sessions :
    /\ FirstLoginDone(s) /\ authResult[s] = "success"
    /\ RepeatLoginDone(t) /\ authResult[t] = "success"
    /\ storeLog[t][2].error = NoError
    /\ doneLog[s][1].user.isNewUser
    /\ ~doneLog[t][1].user.isNewUser

\* C11: no two rows of the users table share an email; the insert of a first
\* login whose email another row holds (put there earlier or by the winner
\* of a race) is rejected as a conflict, adds no row, and the login fails
\* through done(error, null) with no principal attached.
C11_EmailUnique ==
  /\ [](\A r1, r2 \in users : r1.email = r2.email => r1 = r2)
  /\ [][\A s \in Sessions :
          (InsertStep(s) /\ \E r \in users : r.email = local[s].payload.email)
            => /\ users' = users
               /\ storeLog'[s][2].error \in {UniqueViolation, StoreFailure}
               /\ doneLog'[s] = <<[err |-> storeLog'[s][2].error, user |-> NullUser]>>
               /\ authResult'[s] = "error"
               /\ principal' = principal]_vars

\* a first login for a subject without a row was rejected because another
\* subject's row holds its email
C11_Witness ==
  \E s \in Sessions :
    /\ pc[s] = "idle"
    /\ Len(storeLog[s]) = 2
    /\ storeLog[s][1].error = PGRST116
    /\ storeLog[s][2].error = UniqueViolation
    /\ authResult[s] = "error"
    /\ ~HasRow(users, local[s].profile.id)
    /\ \E r \in users : r.email = ProfileEmail(local[s].profile)

\* what a page request on session s did to the store: nothing
StoreUntouched == users' = users /\ storeLog' = storeLog

\* C12: a request to /dashboard on a session without a principal never runs
\* the guarded handler and is answered with a redirect to '/', not an error
\* status; the handler runs only when a principal is attached.
C12_DashboardGate ==
  [][\A s \in Sessions : Dashboard(s) =>
       /\ visit'.session = s /\ visit'.route = "/dashboard"
       /\ principal[s] = NullUser
            => /\ ~visit'.ran
               /\ visit'.status = 302 /\ visit'.location = "/"
       /\ visit'.ran => principal[s] # NullUser]_vars

C12_Witness ==
  /\ visit.route = "/dashboard"
  /\ ~visit.authed
  /\ visit.status = 302
  /\ \E s \in Sessions : s # visit.session /\ principal[s] # NullUser

\* C13: the admin handler runs only for an authenticated principal whose
\* email is character for character the configured ADMIN_EMAIL; a principal
\* with another email, also one that differs in letter case only, gets 403
\* with the plain message, no redirect, and the user list is not queried.
C13_AdminGate ==
  [][\A s \in Sessions : \A fails \in BOOLEAN : Admin(s, fails) =>
       /\ visit'.session = s /\ visit'.route = "/admin"
       /\ (visit'.ran \/ visit'.queried)
            => principal[s] # NullUser /\ principal[s].email = "a@x.com"
       /\ (principal[s] # NullUser /\ principal[s].email # "a@x.com")
            => /\ visit'.status = 403
               /\ visit'.body = "Access denied. Admin only."
               /\ visit'.location = ""
               /\ ~visit'.ran /\ ~visit'.queried]_vars

\* a principal whose email differs from the admin's in letter case only was
\* turned away
C13_Witness ==
  /\ visit.route = "/admin"
  /\ visit.authed /\ visit.email = "A@x.com"
  /\ visit.status = 403
  /\ \E s \in Sessions : principal[s] # NullUser /\ principal[s].email = "a@x.com"

\* the last page request was turned away by the gate of its route
Denied == visit.route \in {"/dashboard", "/admin"} /\ ~visit.ran

C15_LogoutEndsSession ==
  [][\A s \in Sessions :
       /\ Logout(s, FALSE, FALSE)
            => /\ principal'[s] = NullUser
               /\ visit'.session = s /\ visit'.route = "/logout"
               /\ visit'.status = 302 /\ visit'.location = "/"
       /\ (principal[s] = NullUser /\ Dashboard(s))
            => ~visit'.ran /\ visit'.status = 302
       /\ (principal[s] = NullUser /\ \E fails \in BOOLEAN : Admin(s, fails))
            => ~visit'.ran /\ visit'.status = 403
       /\ (principal[s] = NullUser /\ principal'[s] # NullUser)
            => /\ pc[s] \in {"insert", "update"} /\ pc'[s] = "idle"
               /\ authResult'[s] = "success"
               /\ principal'[s] = doneLog'[s][1].user]_vars

\* a session that logged in and then out was denied at a gate
C15_Witness ==
  \E s \in Sessions :
    /\ authResult[s] = "success" /\ pc[s] = "idle"
    /\ principal[s] = NullUser
    /\ visit.session = s
    /\ visit.route \in {"/dashboard", "/admin"}
    /\ ~visit.authed /\ ~visit.ran

\* C16: GET / sends the sign-in page exactly to requests without a principal
\* and redirects exactly the others to '/dashboard'; it issues no store call.
C16_HomePage ==
  [][\A s \in Sessions : Home(s) =>
       /\ visit'.session = s /\ visit'.route = "/"
       /\ principal[s] = NullUser
            <=> (visit'.status = 200 /\ visit'.body = "sign-in page")
       /\ principal[s] # NullUser
            <=> (visit'.status = 302 /\ visit'.location = "/dashboard")
       /\ ~visit'.queried
       /\ StoreUntouched]_vars

C16_Witness ==
  /\ visit.route = "/"
  /\ visit.authed
  /\ visit.status = 302
  /\ \E s \in Sessions : principal[s] = NullUser /\ authResult[s] = "error"

\* the local midnights m with m <= now < m + one day
TodayStarts(now) ==
  {m \in 0..now : m % HoursPerDay = 0 /\ m <= now /\ now < m + HoursPerDay}

\* C17: whatever rows the store returns, the admin panel's totalUsers is the
\* number of rows, activeUsers the number of rows with is_active, newToday
\* the number created at or after local midnight of the current day, and
\* newThisWeek the number created at or after seven days before that midnight.
C17_AdminStats ==
  [][\A fails \in BOOLEAN :
       (Admin(AdminSession, fails) /\ visit'.status = 200) =>
         /\ visit'.stats.totalUsers = Cardinality(users)
         /\ visit'.stats.activeUsers = Cardinality({u \in users : u.is_active})
         /\ visit'.stats.newToday =
              Cardinality({u \in users :
                 \E m \in TodayStarts(clock) : u.created_at >= m})
         /\ visit'.stats.newThisWeek =
              Cardinality({u \in users :
                 \E m \in TodayStarts(clock) :
                    u.created_at >= m - DaysPerWeek * HoursPerDay})]_vars

\* the panel was rendered at an instant that is not a midnight, over one row
\* of today, one created at the week boundary and one an hour before it, one
\* of the three inactive
C17_Witness ==
  /\ visit.route = "/admin" /\ visit.status = 200
  /\ clock % HoursPerDay # 0
  /\ visit.stats.totalUsers = 3
  /\ visit.stats.activeUsers = 2
  /\ visit.stats.newToday = 1
  /\ visit.stats.newThisWeek = 2
  /\ \E u \in users : u.created_at = WeekAgo(clock) - 1
  /\ \E u \in users : u.created_at = WeekAgo(clock)

\* exactly three users, created ten days, two days and one hour before T
ThreeUsers(rows, T) ==
  /\ Cardinality(rows) = 3
  /\ {u.created_at : u \in rows} = {T - 10 * HoursPerDay, T - 2 * HoursPerDay, T - 1}

PanelOfThree ==
  /\ visit.route = "/admin" /\ visit.status = 200
  /\ ThreeUsers(users, clock)

\* C18 as stated: at every current time T the panel over those three users
\* shows newToday = 1, newThisWeek = 2 and totalUsers = 3.
C18_ThreeUsersAnyTime ==
  PanelOfThree =>
    /\ visit.stats.newToday = 1
    /\ visit.stats.newThisWeek = 2
    /\ visit.stats.totalUsers = 3

\* C18 amended: at every current time T that lies one hour or more after
\* local midnight the panel over those three users shows newToday = 1,
\* newThisWeek = 2 and totalUsers = 3; in the first hour of the day the user
\* created at T - 1h belongs to the day before and newToday = 0.
C18_ThreeUsersAfterFirstHour ==
  PanelOfThree =>
    /\ visit.stats.newThisWeek = 2
    /\ visit.stats.totalUsers = 3
    /\ visit.stats.newToday = IF clock % HoursPerDay >= 1 THEN 1 ELSE 0

C18_Witness ==
  /\ PanelOfThree
  /\ clock % HoursPerDay = 1
  /\ visit.stats.newToday = 1

\* a step that is one run of script
RunOf(script) ==
  /\ Len(runs') = Len(runs) + 1
  /\ runs'[Len(runs')].script = script

LastRun == runs[Len(runs)]
NewRun == runs'[Len(runs')]

\* the tables a script's batch alters without creating them
HasTablesFor(script, sch) ==
  script = "addOAuthTokenColumns" => "users" \in sch.tables

\* C19: a script that exec_sql executes on a store holding the tables it
\* alters ends without error, and so does a second run right after a first
\* one that ended without error; after the second run the store has the
\* users table and the sessions table, every column of both and every column
\* and index the script creates, each once.
C19_RerunIdempotent ==
  [][\A script \in Scripts :
       (RunOf(script) /\ NewRun.channel = "ok") =>
         /\ HasTablesFor(script, schema) => NewRun.status = "success"
         /\ (/\ runs # << >>
             /\ LastRun.script = script
             /\ LastRun.status = "success") =>
               /\ NewRun.status = "success"
               /\ schema'.tables = TableNames
               /\ Covers(schema', ServerSchema)
               /\ Covers(schema', Provides(script))
               /\ schema'.columns \subseteq
                    ServerSchema.columns \cup ({"users"} \X OAuthColumns)
               /\ schema'.indexes \subseteq IndexNames]_vars

\* setupTables ran twice in succession, both runs ended without error and
\* the store holds both tables and the three indexes
C19_Witness ==
  /\ Len(runs) = 2
  /\ runs[1].script = "setupTables" /\ runs[1].status = "success"
  /\ runs[2].script = "setupTables" /\ runs[2].status = "success"
  /\ schema = IndexedSchema

\* C20 as stated: every statement is guarded, so a run of a script on a store
\* that already has everything the script creates leaves the schema and the
\* user rows as they were.
C20_RerunIsNoOp ==
  [][\A script \in Scripts :
       (RunOf(script) /\ Covers(schema, Provides(script))) =>
          /\ schema' = schema
          /\ users' = users]_vars

\* C21: whenever a run's call to exec_sql does not succeed (the function is
\* missing, the store answers with a non-success status or an SQL error, or
\* the store cannot be reached), the script prints its SQL text on the console.
C21_FallbackPrintsSql ==
  \A i \in 1..Len(runs) : runs[i].status # "success" => runs[i].printed

\* C22: created_at of a row is written at its insert and by no later step;
\* the row a first authentication inserts has no last_login; and every later
\* authentication of the user that succeeds leaves the time it was made in
\* the row's last_login.
C22_LifecycleTimestamps ==
  [][/\ \A r \in users :
          \E r2 \in users' : r2.id = r.id /\ r2.created_at = r.created_at
     /\ \A s \in Sessions :
          (InsertStep(s) /\ authResult'[s] = "success") =>
             \E r \in users' \ users :
                /\ r.created_at = clock
                /\ r.last_login = NoTime
     /\ \A s \in Sessions :
          (UpdateStep(s) /\ authResult'[s] = "success") =>
             \A r \in RowsOf(users', local[s].profile.id) :
                r.last_login = local[s].payload.last_login]_vars

\* the last callback request of s ended in the catch-all error middleware
ReachedErrorMiddleware(s) ==
  /\ pc[s] = "idle"
  /\ Len(doneLog[s]) = 1
  /\ doneLog[s][1].err # NoError

\* C23: every error that reaches the catch-all error middleware is answered
\* with status 500 and the body 'Internal server error', and two requests
\* that ended there with different errors got the same response.
C23_GenericErrorResponse ==
  /\ \A s \in Sessions :
       ReachedErrorMiddleware(s) =>
         response[s] = [status |-> 500, location |-> "", body |-> "Internal server error"]
  /\ \A s, t \in Sessions :
       (ReachedErrorMiddleware(s) /\ ReachedErrorMiddleware(t)) =>
         response[s] = response[t]

\* two requests ended in the catch-all, one with a TypeError of the profile
\* and one with a store error
C23_Witness ==
  \E s, t \in Sessions :
    /\ ReachedErrorMiddleware(s) /\ doneLog[s][1].err = TypeError
    /\ ReachedErrorMiddleware(t) /\ doneLog[t][1].err = StoreFailure
    /\ response[s] = response[t]
    /\ response[s].status = 500

\* C24: when the user-list query of GET /admin fails, the answer is status
\* 500 with the text 'Error loading admin dashboard' and no panel; and a
\* request to /admin, whatever its outcome, leaves the users table as it was.
C24_AdminQueryFailure ==
  [][\A s \in Sessions :
       /\ (Admin(s, TRUE) /\ IsAdmin(principal[s])) =>
            /\ visit'.status = 500
            /\ visit'.body = "Error loading admin dashboard"
            /\ visit'.location = ""
            /\ visit'.stats = NoStats
       /\ \A fails \in BOOLEAN : Admin(s, fails) => users' = users]_vars

\* the admin asked for the panel over a non-empty table and the query failed
C24_Witness ==
  /\ visit.route = "/admin" /\ visit.queried
  /\ visit.email = ADMIN_EMAIL
  /\ visit.status = 500
  /\ visit.body = "Error loading admin dashboard"
  /\ users # {}

\* a step of a login, a failed login or a logout on session s
AuthStepOf(s) ==
  \/ CallbackDenied(s)
  \/ \E profile \in RouteProfiles : CallbackBegin(s, profile)
  \/ \E fails \in BOOLEAN : Lookup(s, fails)
  \/ \E fails \in BOOLEAN : Insert(s, fails)
  \/ \E fails \in BOOLEAN : Update(s, fails)
  \/ \E fails \in BOOLEAN, kept \in BOOLEAN : Logout(s, fails, kept)

\* C25: a step of a login, a failed login or a logout on one session leaves
\* the principal of every other session as it was, however the requests of
\* the sessions interleave.
C25_SessionsIsolated ==
  [][\A s \in Sessions :
       AuthStepOf(s) => \A t \in Sessions \ {s} : principal'[t] = principal[t]]_vars

\* one session logged out after both had logged in, and the other is still
\* logged in
C25_Witness ==
  \E s, t \in Sessions :
    /\ s # t
    /\ visit.route = "/logout" /\ visit.session = t /\ visit.authed
    /\ principal[t] = NullUser
    /\ principal[s] # NullUser
    /\ authResult[t] = "success"

\* C26: the store calls of one upsert: the first is the lookup, at most one
\* call follows it and only after the lookup was answered, that call is an
\* insert exactly when the lookup returned no row and an update exactly when
\* it returned a row, and no call is issued while another is pending.
C26_StoreCallsInOrder ==
  \A s \in Sessions :
    LET log == storeLog[s] IN
    /\ Len(log) <= 2
    /\ Len(log) >= 1 => log[1].op = "select"
    /\ Len(log) = 2 =>
         /\ log[2].op \in {"insert", "update"}
         /\ log[2].op = "insert" <=> log[1].error = PGRST116
         /\ log[2].op = "update" <=> log[1].error = NoError
    /\ \A i \in 1..Len(log) : log[i].error = "pending" => i = Len(log)
    /\ pc[s] = "idle" => \A i \in 1..Len(log) : log[i].error # "pending"

\* one finished upsert that looked up and inserted, one that looked up and
\* updated
C26_Witness ==
  \E s, t \in Sessions :
    /\ pc[s] = "idle" /\ pc[t] = "idle"
    /\ Len(storeLog[s]) = 2 /\ storeLog[s][2].op = "insert"
    /\ storeLog[s][2].error = NoError
    /\ Len(storeLog[t]) = 2 /\ storeLog[t][2].op = "update"
    /\ storeLog[t][2].error = NoError

\* the callback request of s ends with this step
CallbackEnds(s) == pc[s] # "idle" /\ pc'[s] = "idle"

\* a page request of session s
PageStepOf(s) ==
  \/ Home(s)
  \/ Dashboard(s)
  \/ \E fails \in BOOLEAN : Admin(s, fails)

\* C27: the principal a successful login attaches to the session is the
\* whole record the upsert handed to done (every column of the row and the
\* isNewUser flag); it changes only with a later login or a logout of that
\* session, whatever happens to the row in the store; and every page request
\* of the session sees exactly it as req.user.
C27_PrincipalIsSnapshot ==
  [][\A s \in Sessions :
       /\ (CallbackEnds(s) /\ authResult'[s] = "success") =>
            /\ principal'[s] = doneLog'[s][1].user
            /\ DOMAIN principal'[s] = UserColumns \cup {"isNewUser"}
            /\ \A c \in UserColumns : principal'[s][c] = local'[s].user[c]
       /\ principal'[s] # principal[s] =>
            \/ CallbackEnds(s) /\ authResult'[s] = "success"
            \/ \E fails \in BOOLEAN, kept \in BOOLEAN : Logout(s, fails, kept)
       /\ PageStepOf(s) => visit'.user = principal[s]]_vars

\* a session opened its dashboard with a snapshot that no longer equals the
\* user's row: another session of the same user has logged in since and the
\* row's last_login was written
C27_Witness ==
  \E s \in Sessions :
    /\ visit.session = s /\ visit.route = "/dashboard" /\ visit.status = 200
    /\ visit.user = principal[s]
    /\ "isNewUser" \in DOMAIN visit.user
    /\ \E r \in users :
         /\ r.id = visit.user.id
         /\ r.last_login # visit.user.last_login

\* C28: no step replaces the last_login of a row by an earlier time.
C28_LastLoginMonotonic ==
  [][\A r \in users : \A r2 \in users' :
       (r2.id = r.id /\ r.last_login # NoTime) =>
          /\ r2.last_login # NoTime
          /\ r2.last_login[1] >= r.last_login[1]]_vars

\* the verify callback was invoked for the last callback request of s
VerifyInvoked(s) == local[s].profile # NullUser

\* the cases in which the callback reports an error: the profile lacks a
\* list it indexes, or the lookup or the insert reported an error
VerifyErrorCase(s) ==
  \/ ProfileThrows(local[s].profile)
  \/ /\ Len(storeLog[s]) >= 1
     /\ storeLog[s][1].error \notin {NoError, PGRST116, "pending"}
  \/ /\ Len(storeLog[s]) = 2
     /\ storeLog[s][2].op = "insert"
     /\ storeLog[s][2].error \notin {NoError, "pending"}

\* C29: when every store call is answered, each invocation of the verify
\* callback comes to its end, and it has then called done exactly once, with
\* an error and no user in the error cases and with no error and a user
\* otherwise; before its end it has not called done.
C29_DoneExactlyOnce ==
  /\ [](\A s \in Sessions :
          VerifyInvoked(s) =>
            IF pc[s] = "idle"
              THEN /\ Len(doneLog[s]) = 1
                   /\ IF VerifyErrorCase(s)
                        THEN doneLog[s][1].err # NoError /\ doneLog[s][1].user = NullUser
                        ELSE doneLog[s][1].err = NoError /\ doneLog[s][1].user # NullUser
              ELSE doneLog[s] = << >>)
  /\ \A s \in Sessions : (pc[s] # "idle") ~> (pc[s] = "idle")

\* one invocation ended with the TypeError of a profile without a photos
\* list, one with a user after an update the store rejected
C29_Witness ==
  \E s, t \in Sessions :
    /\ pc[s] = "idle" /\ VerifyInvoked(s)
    /\ ~local[s].profile.photosDefined
    /\ doneLog[s] = <<[err |-> TypeError, user |-> NullUser]>>
    /\ pc[t] = "idle" /\ VerifyInvoked(t)
    /\ Len(storeLog[t]) = 2 /\ storeLog[t][2].op = "update"
    /\ storeLog[t][2].error = StoreFailure
    /\ Len(doneLog[t]) = 1 /\ doneLog[t][1].err = NoError

\* is p a prefix of q
IsPrefix(p, q) == Len(p) <= Len(q) /\ \A i \in 1..Len(p) : p[i] = q[i]

\* C30: run() attempts the eleven steps in their listed order and none is
\* skipped because an earlier one threw, recorded an error or returned false:
\* a step that throws is followed by the next step, when the summary is
\* printed all eleven have been attempted in order, and the summary is the
\* success summary exactly when no error was recorded.
C30_AllStepsThenSummary ==
  /\ [](/\ IsPrefix(setup.attempted, Steps)
        /\ setup.next = Len(setup.attempted) + 1
        /\ setup.summary # "none" =>
             /\ setup.attempted = Steps
             /\ setup.summary = "success" <=> setup.errors = << >>)
  /\ [][\A outcome \in AllOutcomes :
          SetupStep(outcome) =>
            /\ setup'.attempted = Append(setup.attempted, Steps[setup.next])
            /\ (outcome.thrown \/ outcome.found # {}) => setup'.errors # << >>
            /\ IsPrefix(setup.errors, setup'.errors)]_vars

\* loadConfig failed, later steps threw, all eleven steps were attempted and
\* the summary reports the errors
C30_Witness ==
  /\ setup.summary = "errors"
  /\ setup.attempted = Steps
  /\ setup.config = "null"
  /\ Len(setup.errors) >= 9

====
